---------------------------- MODULE Spec2Model ----------------------------
(***************************************************************************)
(* Model of the bitads reconciliation service and campaign scorer.         *)
(*                                                                         *)
(*   BitAdsServiceImpl  (src/common/services/bitads/impl.py)               *)
(*   CoreMiner          (src/neurons/miner/core.py)                        *)
(*   tracking endpoint  (src/proxies/miner.py)                             *)
(*                                                                         *)
(* The canonical record store is a table of rows keyed by id.  The         *)
(* repository functions bitads_data.get_data / filter_existing_ids /       *)
(* add_or_update / add_data are called by the service but live outside     *)
(* the service sources; they are modelled from the store contract of       *)
(* spec.md section 4.1.                                                    *)
(*                                                                         *)
(* Amounts are whole currency units; float() of such a value is exact, so  *)
(* the float subtraction of the service is integer subtraction here.       *)
(***************************************************************************)
EXTENDS Integers, Sequences, FiniteSets, TLC

VARIABLES
    rows,       \* the table behind database_manager: a set of BitAdsData rows
    applied,    \* history: per id, the queue item whose write was the last write to that id
    last,       \* history: the last service call, its inputs and what it returned
    now,        \* datetime.utcnow(), in minutes since CoreMiner.__init__
    last_optimization_time,   \* CoreMiner.last_optimization_time
    campaign_performance,     \* CoreMiner.campaign_performance
    ranked,     \* history: what the previous recomputing evaluation returned
    lastEval,   \* history: the last _optimize_campaign_selection call
    scoring,    \* one campaign's aggregates and the score computed from them
    sync_run,   \* CoreMiner.sync: where the call stands and what each task did
    paging,     \* one paged query: its arguments, what it asked of the store, what it returned
    callers,    \* two concurrent add_by_queue_items calls: their locals, and the order of the upserts
    arrival,    \* history: per id, an item rejected for want of its visit and what followed
    tracking    \* the miner's visit store, and the last request of the tracking endpoint

storeVars == <<rows, applied, last>>
scorerVars == <<now, last_optimization_time, campaign_performance, ranked, lastEval>>
auxVars == <<scoring, sync_run, paging, callers, arrival, tracking>>
vars == <<rows, applied, last, now, last_optimization_time, campaign_performance,
          ranked, lastEval, scoring, sync_run, paging, callers, arrival,
          tracking>>

---------------------------------------------------------------------------
(* Bounds of the model *)

NumIds == 2
MaxBatch == 2
NumCampaigns == 2
TickMinutes == 15
MaxTime == 60
MaxPage == 3

Ids == 1..NumIds

---------------------------------------------------------------------------
(* Input shapes *)

\* VisitorSchema as the service receives it.  campaign_id and origin stand for
\* campaign_id/campaign_item and ip/user agent/referer/device/country/country code.
VisitorSchemas ==
    {[id |-> i, campaign_id |-> c, origin |-> c, miner_block |-> 1] : i \in Ids, c \in 1..2}

\* order_info and optional refund_info (<<>> is None) of a queue item: a sale
\* of one line, a sale of two lines, a sale refunded for more than its total
\* with one refund line, and a sale with a refund total but no refund line.
ItemBodies ==
    { [order_info |-> [totalAmount |-> 10, items |-> <<1>>, sale_date |-> 1],
       refund_info |-> <<>>],
      [order_info |-> [totalAmount |-> 30, items |-> <<1, 2>>, sale_date |-> 2],
       refund_info |-> <<>>],
      [order_info |-> [totalAmount |-> 10, items |-> <<1>>, sale_date |-> 1],
       refund_info |-> <<[totalAmount |-> 20, items |-> <<1>>]>>],
      [order_info |-> [totalAmount |-> 30, items |-> <<1, 2>>, sale_date |-> 2],
       refund_info |-> <<[totalAmount |-> 5, items |-> <<>>]>>] }

OrderQueueSchemas ==
    {[id |-> i, order_info |-> b.order_info, refund_info |-> b.refund_info] :
        i \in Ids, b \in ItemBodies}

\* (validator_block, validator_hotkey) of a call
Validators == {[block |-> 1, hotkey |-> "v1"], [block |-> 2, hotkey |-> "v2"]}

\* What the store does on one item of a batch: nothing wrong, the read
\* (get_data) raises, or the write (add_or_update) raises.
Faults == {"ok", "read", "write"}

SeqsUpTo(S, n) == UNION {[1..k -> S] : k \in 1..n}
SetsUpTo(S, n) == {T \in SUBSET S : T # {} /\ Cardinality(T) <= n}

\* The orders in which a Python set can be iterated
Orderings(S) == {s \in [1..Cardinality(S) -> S] : \A i, j \in DOMAIN s : i # j => s[i] # s[j]}

---------------------------------------------------------------------------
(* Schemas *)

\* BitAdsDataSchema(**visit.model_dump()): sales_status NONE, no sale data
ToBitAdsData(visit) ==
    [id |-> visit.id, campaign_id |-> visit.campaign_id, origin |-> visit.origin,
     miner_block |-> visit.miner_block,
     sales_status |-> "NONE", sale_date |-> 0, order_info |-> <<>>, refund_info |-> <<>>,
     validator_block |-> 0, validator_hotkey |-> "", sales |-> 0, sale_amount |-> 0,
     refund |-> 0]

\* BitAdsDataSchema(**v.model_dump(exclude={"complete_block"}), sales_status=COMPLETED)
ToCompletedData(visit) == [ToBitAdsData(visit) EXCEPT !.sales_status = "COMPLETED"]

---------------------------------------------------------------------------
(* The canonical record store (spec.md 4.1) *)

StoredIds(rs) == {r.id : r \in rs}

\* get(id) -> record | absent
get_data(rs, id) ==
    LET m == {r \in rs : r.id = id}
    IN IF m = {} THEN <<>> ELSE <<CHOOSE r \in m : TRUE>>

\* filterExistingIds(idSet) -> subset present in store
filter_existing_ids(rs, ids) == {i \in ids : \E r \in rs : r.id = i}

\* A plain INSERT into the table: refused when the key is taken
InsertRow(rs, rec) ==
    IF \E r \in rs : r.id = rec.id
    THEN [rows |-> rs, rec |-> rec, dup |-> TRUE]
    ELSE [rows |-> rs \cup {rec}, rec |-> rec, dup |-> FALSE]

\* upsert(record) -> record: insert when the id is new, otherwise overwrite the
\* mutable fields and keep the origin fields of the existing row.
add_or_update(rs, rec) ==
    LET ex == {r \in rs : r.id = rec.id}
    IN IF ex = {}
       THEN InsertRow(rs, rec)
       ELSE LET old == CHOOSE r \in ex : TRUE
                merged == [rec EXCEPT !.origin = old.origin,
                                      !.campaign_id = old.campaign_id]
            IN [rows |-> (rs \ ex) \cup {merged}, rec |-> merged, dup |-> FALSE]

\* The insert used for bulk visit ingestion
add_data_insert(rs, rec) == InsertRow(rs, rec)

\* The store's mutation path is the upsert (spec.md 4.1)
add_data(rs, rec) == add_or_update(rs, rec)

---------------------------------------------------------------------------
(* BitAdsServiceImpl *)

NoCall ==
    [op |-> "none", before |-> {}, validator |-> [block |-> 0, hotkey |-> ""],
     items |-> <<>>, faults |-> <<>>, visits |-> <<>>,
     raised |-> FALSE, dup_error |-> FALSE, result |-> <<>>, log |-> <<>>]

Unapply(ap, ids) == [i \in Ids |-> IF i \in ids THEN <<>> ELSE ap[i]]

\* add_by_visits without the `continue` of lines 88-89
NewVisits_nofilter(rs, order) == order

\* add_by_visits, lines 84-86 and 88-89: the visits that reach add_data, in
\* the iteration order of the set
NewVisits(rs, order) ==
    LET existed_ids == filter_existing_ids(rs, {order[i].id : i \in DOMAIN order})
    IN SelectSeq(order, LAMBDA v : v.id \notin existed_ids)

\* the loop of add_by_visits: add_data for each visit; a refused insert raises
RECURSIVE AddEach(_, _)
AddEach(rs, visits) ==
    IF visits = <<>> THEN [rows |-> rs, dup |-> FALSE]
    ELSE LET u == add_data(rs, ToBitAdsData(Head(visits)))
         IN IF u.dup THEN [rows |-> u.rows, dup |-> TRUE]
            ELSE AddEach(u.rows, Tail(visits))

\* the loop of add_bitads_data: add_or_update for each data
RECURSIVE UpsertEach(_, _)
UpsertEach(rs, datas) ==
    IF datas = <<>> THEN [rows |-> rs, dup |-> FALSE]
    ELSE LET u == add_or_update(rs, Head(datas))
         IN IF u.dup THEN [rows |-> u.rows, dup |-> TRUE]
            ELSE UpsertEach(u.rows, Tail(datas))

\* ---- add_by_queue_items, per item ----

\* the net amount floored at zero
SaleAmount_clamped(item) ==
    LET sale_amount == item.order_info.totalAmount
        refund_amount == IF item.refund_info # <<>> THEN item.refund_info[1].totalAmount ELSE 0
    IN IF sale_amount - refund_amount < 0 THEN 0 ELSE sale_amount - refund_amount

\* lines 137-141
SaleAmount(item) ==
    LET sale_amount == item.order_info.totalAmount
        refund_amount == IF item.refund_info # <<>> THEN item.refund_info[1].totalAmount ELSE 0
    IN sale_amount - refund_amount

\* line 142
Sales(item) == Len(item.order_info.items)

\* line 143
Refund(item) == IF item.refund_info # <<>> THEN Len(item.refund_info[1].items) ELSE 0

\* extra_fields that name sales_status for every item: NONE without refund lines
ExtraFields_reset(data, refund) ==
    [data EXCEPT !.sales_status = IF refund > 0 THEN "COMPLETED" ELSE "NONE"]

\* no extra_fields at all
ExtraFields_never(data, refund) == data

\* line 145: extra_fields, applied to the copy
ExtraFields(data, refund) ==
    IF refund > 0 THEN [data EXCEPT !.sales_status = "COMPLETED"] ELSE data

\* the copy with the net amount added to the amount already stored
NewData_accumulate(existed_data, validator, item) ==
    ExtraFields(
        [existed_data EXCEPT
            !.sale_date = item.order_info.sale_date,
            !.order_info = <<item.order_info>>,
            !.refund_info = item.refund_info,
            !.validator_block = validator.block,
            !.validator_hotkey = validator.hotkey,
            !.sales = Sales(item),
            !.sale_amount = existed_data.sale_amount + SaleAmount(item),
            !.refund = Refund(item)],
        Refund(item))

\* a record built anew from the item and the keys of the stored one, in place
\* of the copy
NewData_rebuilt(existed_data, validator, item) ==
    ExtraFields(
        [ToBitAdsData([id |-> existed_data.id, campaign_id |-> existed_data.campaign_id,
                       origin |-> existed_data.origin, miner_block |-> 0]) EXCEPT
            !.sales_status = existed_data.sales_status,
            !.sale_date = item.order_info.sale_date,
            !.order_info = <<item.order_info>>,
            !.refund_info = item.refund_info,
            !.validator_block = validator.block,
            !.validator_hotkey = validator.hotkey,
            !.sales = Sales(item),
            !.sale_amount = SaleAmount(item),
            !.refund = Refund(item)],
        Refund(item))

\* the copy that keeps the stored refund_info when the item has none
NewData_keep_refund(existed_data, validator, item) ==
    ExtraFields(
        [existed_data EXCEPT
            !.sale_date = item.order_info.sale_date,
            !.order_info = <<item.order_info>>,
            !.refund_info = IF item.refund_info = <<>> THEN @ ELSE item.refund_info,
            !.validator_block = validator.block,
            !.validator_hotkey = validator.hotkey,
            !.sales = Sales(item),
            !.sale_amount = SaleAmount(item),
            !.refund = Refund(item)],
        Refund(item))

\* lines 147-159: existed_data.model_copy(update=...)
NewData(existed_data, validator, item) ==
    ExtraFields(
        [existed_data EXCEPT
            !.sale_date = item.order_info.sale_date,
            !.order_info = <<item.order_info>>,
            !.refund_info = item.refund_info,
            !.validator_block = validator.block,
            !.validator_hotkey = validator.hotkey,
            !.sales = Sales(item),
            !.sale_amount = SaleAmount(item),
            !.refund = Refund(item)],
        Refund(item))

\* lines 134-136 with a record created for the unknown id
OnNotFound_create(rs, ap, validator, item) ==
    LET u == add_or_update(rs, NewData(ToBitAdsData([id |-> item.id, campaign_id |-> 1,
                                                     origin |-> 1, miner_block |-> 1]),
                                       validator, item))
    IN [rows |-> u.rows, applied |-> [ap EXCEPT ![item.id] = <<item>>], raised |-> FALSE,
        status |-> "PROCESSED", record |-> <<u.rec>>]

\* lines 134-136 with the item kept in the store as a stub of a record
OnNotFound_stub(rs, ap, validator, item) ==
    LET u == add_or_update(rs, NewData(ToBitAdsData([id |-> item.id, campaign_id |-> 0,
                                                     origin |-> 0, miner_block |-> 0]),
                                       validator, item))
    IN [rows |-> u.rows, applied |-> ap, raised |-> FALSE, status |-> "VISIT_NOT_FOUND",
        record |-> <<>>]

\* lines 134-136: no record for item.id
OnNotFound(rs, ap, validator, item) ==
    [rows |-> rs, applied |-> ap, raised |-> FALSE, status |-> "VISIT_NOT_FOUND",
     record |-> <<>>]

\* add_or_update outside any try: its exception leaves the call
OnUpsertFailure_raise(rs, ap) ==
    [rows |-> rs, applied |-> ap, raised |-> TRUE, status |-> "RAISED", record |-> <<>>]

\* lines 163-165: except Exception
OnUpsertFailure(rs, ap) ==
    [rows |-> rs, applied |-> ap, raised |-> FALSE, status |-> "ERROR", record |-> <<>>]

\* line 162 returning the record read at line 133
OnUpsert_existed(rs, ap, item, existed_data, new_data) ==
    LET u == add_or_update(rs, new_data)
    IN [rows |-> u.rows, applied |-> [ap EXCEPT ![item.id] = <<item>>],
        raised |-> FALSE, status |-> "PROCESSED", record |-> <<existed_data>>]

\* lines 161-162: the upsert went through
OnUpsert(rs, ap, item, existed_data, new_data) ==
    LET u == add_or_update(rs, new_data)
    IN [rows |-> u.rows, applied |-> [ap EXCEPT ![item.id] = <<item>>],
        raised |-> FALSE, status |-> "PROCESSED", record |-> <<u.rec>>]

\* What one item of the batch does (lines 133-165).  raised: the exception left
\* the call.
ProcessItem(rs, ap, validator, item, fault) ==
    LET existed == get_data(rs, item.id)
    IN IF fault = "read"
       THEN \* get_data raises at line 133, outside the try of lines 160-165
            [rows |-> rs, applied |-> ap, raised |-> TRUE, status |-> "RAISED",
             record |-> <<>>]
       ELSE IF existed = <<>>
       THEN OnNotFound(rs, ap, validator, item)
       ELSE LET new_data == NewData(existed[1], validator, item)
            IN IF fault = "write"
               THEN OnUpsertFailure(rs, ap)
               ELSE OnUpsert(rs, ap, item, existed[1], new_data)

\* the loop with a result map that keeps the first outcome of an id
RECURSIVE RunItems_first_wins(_, _, _, _, _, _, _)
RunItems_first_wins(rs, ap, result, log, validator, items, faults) ==
    IF items = <<>>
    THEN [rows |-> rs, applied |-> ap, result |-> result, log |-> log, raised |-> FALSE]
    ELSE LET item == Head(items)
             p == ProcessItem(rs, ap, validator, item, Head(faults))
             e == [item |-> item, fault |-> Head(faults), before |-> rs,
                   existed |-> get_data(rs, item.id), prev_item |-> ap[item.id],
                   status |-> p.status, record |-> p.record, after |-> p.rows]
         IN IF p.raised
            THEN [rows |-> p.rows, applied |-> p.applied, result |-> result,
                  log |-> Append(log, e), raised |-> TRUE]
            ELSE RunItems_first_wins(p.rows, p.applied,
                          result @@ (item.id :> [status |-> p.status, record |-> p.record]),
                          Append(log, e), validator, Tail(items), Tail(faults))

\* lines 130-166: the loop over the items
RECURSIVE RunItems(_, _, _, _, _, _, _)
RunItems(rs, ap, result, log, validator, items, faults) ==
    IF items = <<>>
    THEN [rows |-> rs, applied |-> ap, result |-> result, log |-> log, raised |-> FALSE]
    ELSE LET item == Head(items)
             p == ProcessItem(rs, ap, validator, item, Head(faults))
             \* history of this item: what it found, what it got, what it left
             e == [item |-> item, fault |-> Head(faults), before |-> rs,
                   existed |-> get_data(rs, item.id), prev_item |-> ap[item.id],
                   status |-> p.status, record |-> p.record, after |-> p.rows]
         IN IF p.raised
            THEN [rows |-> p.rows, applied |-> p.applied, result |-> result,
                  log |-> Append(log, e), raised |-> TRUE]
            ELSE RunItems(p.rows, p.applied,
                          (item.id :> [status |-> p.status, record |-> p.record]) @@ result,
                          Append(log, e), validator, Tail(items), Tail(faults))

---------------------------------------------------------------------------
(* Service calls as actions *)

\* add_by_visit, lines 92-94
add_by_visit ==
    /\ last.op = "none"
    /\ \E visit \in VisitorSchemas :
        LET u == add_or_update(rows, ToBitAdsData(visit))
        IN /\ rows' = u.rows
           /\ applied' = Unapply(applied, {visit.id})
           /\ last' = [NoCall EXCEPT !.op = "add_by_visit", !.before = rows,
                                     !.visits = <<visit>>, !.dup_error = u.dup]
           /\ UNCHANGED <<scorerVars, auxVars>>

\* add_by_visits, lines 82-90
add_by_visits ==
    /\ last.op = "none"
    /\ \E visits \in SetsUpTo(VisitorSchemas, MaxBatch) :
      \E order \in Orderings(visits) :
        LET todo == NewVisits(rows, order)
            u == AddEach(rows, todo)
        IN /\ rows' = u.rows
           /\ applied' = Unapply(applied, {todo[i].id : i \in DOMAIN todo})
           /\ last' = [NoCall EXCEPT !.op = "add_by_visits", !.before = rows,
                                     !.visits = order, !.raised = u.dup,
                                     !.dup_error = u.dup]
           /\ UNCHANGED <<scorerVars, auxVars>>

\* the datas another actor may hand to add_bitads_data
BitAdsDataSchemas ==
    {ToBitAdsData(v) : v \in VisitorSchemas} \cup {ToCompletedData(v) : v \in VisitorSchemas}

\* add_bitads_data, lines 96-99
add_bitads_data ==
    /\ last.op = "none"
    /\ \E datas \in SetsUpTo(BitAdsDataSchemas, MaxBatch) :
      \E order \in Orderings(datas) :
        LET u == UpsertEach(rows, order)
        IN /\ rows' = u.rows
           /\ applied' = Unapply(applied, {order[i].id : i \in DOMAIN order})
           /\ last' = [NoCall EXCEPT !.op = "add_bitads_data", !.before = rows,
                                     !.visits = order, !.raised = u.dup,
                                     !.dup_error = u.dup]
           /\ UNCHANGED <<scorerVars, auxVars>>

\* add_completed_visits, lines 110-118: the list becomes a set of datas
add_completed_visits ==
    /\ last.op = "none"
    /\ \E visits \in SeqsUpTo(VisitorSchemas, MaxBatch) :
      LET datas == {ToCompletedData(visits[i]) : i \in DOMAIN visits}
      IN \E order \in Orderings(datas) :
           LET u == UpsertEach(rows, order)
           IN /\ rows' = u.rows
              /\ applied' = Unapply(applied, {order[i].id : i \in DOMAIN order})
              /\ last' = [NoCall EXCEPT !.op = "add_completed_visits", !.before = rows,
                                        !.visits = order, !.raised = u.dup,
                                        !.dup_error = u.dup]
              /\ UNCHANGED <<scorerVars, auxVars>>

\* add_by_queue_items, lines 127-166
add_by_queue_items ==
    /\ last.op = "none"
    /\ \E validator \in Validators :
      \E items \in SeqsUpTo(OrderQueueSchemas, MaxBatch) :
        \E faults \in [DOMAIN items -> Faults] :
          LET r == RunItems(rows, applied, <<>>, <<>>, validator, items, faults)
          IN /\ rows' = r.rows
             /\ applied' = r.applied
             /\ last' = [NoCall EXCEPT !.op = "add_by_queue_items", !.before = rows,
                                       !.validator = validator, !.items = items,
                                       !.faults = faults, !.raised = r.raised,
                                       !.result = r.result, !.log = r.log]
             /\ UNCHANGED <<scorerVars, auxVars>>

\* The caller takes what the call returned; the service serves the next call.
Return ==
    /\ last.op # "none"
    /\ last' = NoCall
    /\ UNCHANGED <<rows, applied>>
    /\ UNCHANGED <<scorerVars, auxVars>>

StoreInit ==
    /\ rows = {}
    /\ applied = [i \in Ids |-> <<>>]
    /\ last = NoCall

---------------------------------------------------------------------------
(* CoreMiner: campaign scorer *)

\* timedelta(minutes=30)
optimization_interval == 30

CampaignIds == 1..NumCampaigns

\* What campaign_service.get_active_campaigns() can return: any campaigns, in any order
ActiveLists ==
    UNION {Orderings(S) : S \in SUBSET CampaignIds}

\* What the aggregate queries can return for one campaign: the amounts of its
\* sales, and how many visits and refunds it has.
AggregateProfiles ==
    { [sales |-> <<>>,    visits |-> 0,  refunds |-> 0],
      [sales |-> <<600>>, visits |-> 1,  refunds |-> 0],
      [sales |-> <<250>>, visits |-> 40, refunds |-> 0],
      [sales |-> <<250>>, visits |-> 40, refunds |-> 1],
      [sales |-> <<10>>,  visits |-> 0,  refunds |-> 1] }

\* ---- Python float: IEEE-754 binary64, round to nearest, ties to even ----
\* A significand has 53 bits and a product of two has 106, so naturals are
\* kept as sequences of limbs, least significant first, without leading
\* zero limbs (<<>> is 0).

LimbBase == 2^15
LimbBits == 15
Precision == 53

Abs(n) == IF n < 0 THEN -n ELSE n

RECURSIVE NNorm(_)
NNorm(a) ==
    IF a = <<>> THEN <<>>
    ELSE IF a[Len(a)] = 0 THEN NNorm(SubSeq(a, 1, Len(a) - 1)) ELSE a

RECURSIVE NFromInt(_)
NFromInt(n) == IF n = 0 THEN <<>> ELSE <<n % LimbBase>> \o NFromInt(n \div LimbBase)

Limb(a, i) == IF i <= Len(a) THEN a[i] ELSE 0

RECURSIVE NCmpAt(_, _, _)
NCmpAt(a, b, i) ==
    IF i = 0 THEN 0
    ELSE IF a[i] < b[i] THEN -1
    ELSE IF a[i] > b[i] THEN 1
    ELSE NCmpAt(a, b, i - 1)

\* -1, 0, 1 as a < b, a = b, a > b
NCmp(a, b) ==
    IF Len(a) # Len(b) THEN (IF Len(a) < Len(b) THEN -1 ELSE 1)
    ELSE NCmpAt(a, b, Len(a))

RECURSIVE NAddC(_, _, _, _)
NAddC(a, b, i, carry) ==
    IF i > Len(a) /\ i > Len(b) THEN (IF carry = 0 THEN <<>> ELSE <<carry>>)
    ELSE LET t == Limb(a, i) + Limb(b, i) + carry
         IN <<t % LimbBase>> \o NAddC(a, b, i + 1, t \div LimbBase)

NAdd(a, b) == NAddC(a, b, 1, 0)

RECURSIVE NSubB(_, _, _, _)
NSubB(a, b, i, borrow) ==
    IF i > Len(a) THEN <<>>
    ELSE LET d == Limb(a, i) - Limb(b, i) - borrow
         IN IF d < 0 THEN <<d + LimbBase>> \o NSubB(a, b, i + 1, 1)
            ELSE <<d>> \o NSubB(a, b, i + 1, 0)

\* a - b for a >= b
NSub(a, b) == NNorm(NSubB(a, b, 1, 0))

RECURSIVE NMulLimb(_, _, _, _)
NMulLimb(a, d, i, carry) ==
    IF i > Len(a) THEN (IF carry = 0 THEN <<>> ELSE <<carry>>)
    ELSE LET t == a[i] * d + carry
         IN <<t % LimbBase>> \o NMulLimb(a, d, i + 1, t \div LimbBase)

RECURSIVE NMul(_, _)
NMul(a, b) ==
    IF a = <<>> \/ b = <<>> THEN <<>>
    ELSE NNorm(NAdd(NMulLimb(a, Head(b), 1, 0), <<0>> \o NMul(a, Tail(b))))

\* a * 2^k
Shl(a, k) ==
    IF a = <<>> THEN <<>>
    ELSE [i \in 1..(k \div LimbBits) |-> 0] \o NMulLimb(a, 2^(k % LimbBits), 1, 0)

\* a \div 2^k
Shr(a, k) ==
    LET q == k \div LimbBits
        r == k % LimbBits
        t == SubSeq(a, q + 1, Len(a))
    IN NNorm([i \in 1..Len(t) |->
                (t[i] \div 2^r) + (Limb(t, i + 1) % 2^r) * 2^(LimbBits - r)])

RECURSIVE BitLenInt(_)
BitLenInt(n) == IF n = 0 THEN 0 ELSE 1 + BitLenInt(n \div 2)

NBitLen(a) == IF a = <<>> THEN 0 ELSE LimbBits * (Len(a) - 1) + BitLenInt(a[Len(a)])

\* bit i of a, bit 1 the least significant
Bit(a, i) == (Limb(a, ((i - 1) \div LimbBits) + 1) \div 2^((i - 1) % LimbBits)) % 2

NIsOdd(a) == a # <<>> /\ a[1] % 2 = 1

\* long division, bit by bit from the top bit i of a; q and r are the
\* quotient and the remainder of the bits above i (Len(q) < 0 never holds: it
\* has q evaluated at every step)
RECURSIVE DivStep(_, _, _, _, _)
DivStep(a, b, i, q, r) ==
    IF i = 0 \/ Len(q) < 0 THEN [q |-> q, r |-> r]
    ELSE LET r2 == IF Bit(a, i) = 1 THEN NAdd(NAdd(r, r), <<1>>) ELSE NAdd(r, r)
         IN IF NCmp(r2, b) >= 0
            THEN DivStep(a, b, i - 1, NAdd(NAdd(q, q), <<1>>), NSub(r2, b))
            ELSE DivStep(a, b, i - 1, NAdd(q, q), r2)

NDivMod(a, b) == DivStep(a, b, NBitLen(a), <<>>, <<>>)

\* (a * 2^k) divided by b, for a < 2 * b: the bits of a give a quotient of 0
\* or 1, the k zero bits that follow give the rest
NDivModShl(a, b, k) ==
    IF NCmp(a, b) >= 0 THEN DivStep(<<>>, b, k, <<1>>, NSub(a, b))
    ELSE DivStep(<<>>, b, k, <<>>, a)

\* A float is (-1)^neg * m * 2^e with m = 0 or 2^52 <= m < 2^53.  Exponent
\* range and signed zero do not matter for the magnitudes of a score.
FZero == [neg |-> FALSE, m |-> <<>>, e |-> 0]

\* the float nearest to (-1)^neg * (n + f) * 2^e, where 0 <= f < 1 and
\* sticky says f > 0; ties go to the even significand
Round(neg, n, e, sticky) ==
    IF n = <<>> THEN FZero
    ELSE LET len == NBitLen(n)
         IN IF len <= Precision
            THEN [neg |-> neg, m |-> Shl(n, Precision - len), e |-> e - (Precision - len)]
            ELSE LET k == len - Precision
                     q == Shr(n, k)
                     rem == NSub(n, Shl(q, k))
                     c == NCmp(rem, Shl(<<1>>, k - 1))
                     up == c = 1 \/ (c = 0 /\ (sticky \/ NIsOdd(q)))
                     q1 == IF up THEN NAdd(q, <<1>>) ELSE q
                 IN IF NBitLen(q1) > Precision
                    THEN [neg |-> neg, m |-> Shr(q1, 1), e |-> e + k + 1]
                    ELSE [neg |-> neg, m |-> q1, e |-> e + k]

\* float(n) of an int
FromInt(n) == Round(n < 0, NFromInt(Abs(n)), 0, FALSE)

FNeg(x) == IF x.m = <<>> THEN x ELSE [x EXCEPT !.neg = ~x.neg]

FMul(x, y) == Round(x.neg # y.neg, NMul(x.m, y.m), x.e + y.e, FALSE)

\* x / y for y # 0: 55 quotient bits and more, the remainder is the sticky bit
FDiv(x, y) ==
    IF x.m = <<>> THEN FZero
    ELSE LET d == NDivModShl(x.m, y.m, Precision + 2)
         IN Round(x.neg # y.neg, d.q, x.e - y.e - (Precision + 2), d.r # <<>>)

FAdd(x, y) ==
    IF x.m = <<>> THEN y
    ELSE IF y.m = <<>> THEN x
    ELSE LET e == IF x.e < y.e THEN x.e ELSE y.e
             nx == Shl(x.m, x.e - e)
             ny == Shl(y.m, y.e - e)
             c == NCmp(nx, ny)
         IN IF x.neg = y.neg THEN Round(x.neg, NAdd(nx, ny), e, FALSE)
            ELSE IF c = 0 THEN FZero
            ELSE IF c = 1 THEN Round(x.neg, NSub(nx, ny), e, FALSE)
            ELSE Round(y.neg, NSub(ny, nx), e, FALSE)

FSub(x, y) == FAdd(x, FNeg(y))

MagLt(x, y) ==
    IF y.m = <<>> THEN FALSE
    ELSE IF x.m = <<>> THEN TRUE
    ELSE IF x.e # y.e THEN x.e < y.e
    ELSE NCmp(x.m, y.m) = -1

FLt(x, y) ==
    IF x.neg # y.neg THEN x.neg
    ELSE IF x.neg THEN MagLt(y, x) ELSE MagLt(x, y)

FLe(x, y) == ~FLt(y, x)
FEq(x, y) == ~FLt(x, y) /\ ~FLt(y, x)

\* min(a, b) and max(a, b) of Python: the first argument unless the second
\* is strictly smaller (larger)
FMin(a, b) == IF FLt(b, a) THEN b ELSE a
FMax(a, b) == IF FLt(a, b) THEN b ELSE a

\* n / d of two ints (true division, correctly rounded), and the float a
\* literal such as 0.05 denotes
Frac(n, d) == FDiv(FromInt(n), FromInt(d))

RECURSIVE SumSeq(_)
SumSeq(s) == IF s = <<>> THEN 0 ELSE Head(s) + SumSeq(Tail(s))

\* lines 256-270: the entry written to campaign_performance
Performance(agg, current_time) ==
    [conversion_rate |-> IF agg.visits > 0 THEN Frac(Len(agg.sales), agg.visits) ELSE FZero,
     refund_rate |-> IF agg.sales # <<>> THEN Frac(agg.refunds, Len(agg.sales)) ELSE FZero,
     avg_sale |-> IF agg.sales # <<>> THEN Frac(SumSeq(agg.sales), Len(agg.sales)) ELSE FZero,
     total_sales |-> Len(agg.sales),
     total_visits |-> agg.visits,
     total_refunds |-> agg.refunds,
     last_updated |-> current_time]

\* lines 278-281
sales_weight == Frac(90, 100)
conv_weight == Frac(5, 100)
refund_weight == Frac(5, 100)

\* the score without max(0, .)
Score_unfloored(perf) ==
    LET sales_score == FMin(FDiv(perf.avg_sale, FromInt(500)), FromInt(1))
        conv_score == FMin(FDiv(perf.conversion_rate, Frac(5, 100)), FromInt(1))
        refund_penalty == perf.refund_rate
    IN FSub(FAdd(FMul(sales_score, sales_weight), FMul(conv_score, conv_weight)),
            FMul(refund_penalty, refund_weight))

\* lines 284-295: the score of one performance entry
Score(perf) ==
    LET sales_score == FMin(FDiv(perf.avg_sale, FromInt(500)), FromInt(1))
        conv_score == FMin(FDiv(perf.conversion_rate, Frac(5, 100)), FromInt(1))
        refund_penalty == perf.refund_rate
        score == FSub(FAdd(FMul(sales_score, sales_weight), FMul(conv_score, conv_weight)),
                      FMul(refund_penalty, refund_weight))
    IN FMax(FZero, score)

\* lines 273-295
calculate_campaign_score(perfs, campaign) ==
    IF campaign \notin DOMAIN perfs THEN FZero
    ELSE Score(perfs[campaign])

\* The floats of an entry, without its counts and its time
Metrics(perf) ==
    [conversion_rate |-> perf.conversion_rate, refund_rate |-> perf.refund_rate,
     avg_sale |-> perf.avg_sale]

\* Performance and calculate_campaign_score evaluated once for each aggregate
\* profile the queries of the scorer can return
PerformanceOf == [agg \in AggregateProfiles |-> Performance(agg, 0)]
ScoreOf ==
    [m \in {Metrics(PerformanceOf[agg]) : agg \in AggregateProfiles} |->
        calculate_campaign_score((1 :> m), 1)]

\* line 300: key=calculate_campaign_score
SortKey(perfs, campaign) ==
    IF campaign \notin DOMAIN perfs THEN calculate_campaign_score(perfs, campaign)
    ELSE ScoreOf[Metrics(perfs[campaign])]

\* x goes before the elements that score as x does
RECURSIVE InsertDesc_unstable(_, _, _)
InsertDesc_unstable(perfs, sorted, x) ==
    IF sorted = <<>> THEN <<x>>
    ELSE IF FLe(SortKey(perfs, Head(sorted)), SortKey(perfs, x))
         THEN <<x>> \o sorted
         ELSE <<Head(sorted)>> \o InsertDesc_unstable(perfs, Tail(sorted), x)

\* sorted(..., reverse=True) is stable: x goes behind every element that does
\* not score lower
RECURSIVE InsertDesc(_, _, _)
InsertDesc(perfs, sorted, x) ==
    IF sorted = <<>> THEN <<x>>
    ELSE IF FLt(SortKey(perfs, Head(sorted)), SortKey(perfs, x))
         THEN <<x>> \o sorted
         ELSE <<Head(sorted)>> \o InsertDesc(perfs, Tail(sorted), x)

RECURSIVE SortedDesc(_, _, _)
SortedDesc(perfs, done, todo) ==
    IF todo = <<>> THEN done
    ELSE SortedDesc(perfs, InsertDesc(perfs, done, Head(todo)), Tail(todo))

\* lines 250-270: the loop over the campaigns; the queries of campaign
\* number fail_at raise (0: none do).  queried: the campaigns whose sales,
\* visits and refunds were returned.
RECURSIVE UpdatePerformance(_, _, _, _, _, _, _)
UpdatePerformance(perfs, queried, active, aggs, k, fail_at, current_time) ==
    IF k > Len(active) THEN [perfs |-> perfs, queried |-> queried, raised |-> FALSE]
    ELSE IF k = fail_at THEN [perfs |-> perfs, queried |-> queried, raised |-> TRUE]
    ELSE UpdatePerformance((active[k] :> [PerformanceOf[aggs[active[k]]]
                                             EXCEPT !.last_updated = current_time]) @@ perfs,
                           Append(queried, active[k]),
                           active, aggs, k + 1, fail_at, current_time)

\* the gate with <= for <
WithinInterval_le(current_time, last_time) ==
    current_time - last_time <= optimization_interval

\* lines 243-244: the gate
WithinInterval(current_time, last_time) ==
    current_time - last_time < optimization_interval

\* lines 297-319: the outcome of a call past the gate, u being what the loop
\* over the campaigns left
Ranked(u, active) ==
    IF u.raised
    THEN [ret |-> <<>>, time |-> now, perfs |-> u.perfs, queried |-> u.queried,
          recomputed |-> FALSE, raised |-> TRUE]
    ELSE [ret |-> SortedDesc(u.perfs, <<>>, active), time |-> now, perfs |-> u.perfs,
          queried |-> u.queried, recomputed |-> TRUE, raised |-> FALSE]

\* lines 237-319.  source_fails: get_active_campaigns raises.
OptimizeCampaignSelection(active, aggs, source_fails, fail_at) ==
    IF source_fails
    THEN [ret |-> <<>>, time |-> last_optimization_time, perfs |-> campaign_performance,
          queried |-> <<>>, recomputed |-> FALSE, raised |-> TRUE]
    ELSE IF WithinInterval(now, last_optimization_time)
    THEN [ret |-> active, time |-> last_optimization_time, perfs |-> campaign_performance,
          queried |-> <<>>, recomputed |-> FALSE, raised |-> FALSE]
    ELSE Ranked(UpdatePerformance(campaign_performance, <<>>, active, aggs, 1, fail_at, now),
                active)

NoRanking == [has |-> FALSE, list |-> <<>>]

NoEval ==
    [called |-> FALSE, active |-> <<>>, aggs |-> <<>>, source_failed |-> FALSE,
     ret |-> <<>>, queried |-> <<>>, recomputed |-> FALSE, raised |-> FALSE,
     within |-> FALSE, previous |-> NoRanking, time_before |-> 0, perfs_before |-> <<>>]

\* _ping_bitads line 140: the call of _optimize_campaign_selection
optimize_campaign_selection ==
    /\ ~lastEval.called
    /\ \E active \in ActiveLists :
        \E aggs \in [CampaignIds -> AggregateProfiles] :
          \E source_fails \in BOOLEAN :
            \E fail_at \in 0..Len(active) :
              \E r \in {OptimizeCampaignSelection(active, aggs, source_fails, fail_at)} :
                 /\ last_optimization_time' = r.time
                 /\ campaign_performance' = r.perfs
                 /\ ranked' = IF r.recomputed THEN [has |-> TRUE, list |-> r.ret] ELSE ranked
                 /\ lastEval' = [called |-> TRUE, active |-> active, aggs |-> aggs,
                                 source_failed |-> source_fails,
                                 ret |-> r.ret, queried |-> r.queried,
                                 recomputed |-> r.recomputed, raised |-> r.raised,
                                 within |-> WithinInterval(now, last_optimization_time),
                                 previous |-> ranked,
                                 time_before |-> last_optimization_time,
                                 perfs_before |-> campaign_performance]
                 /\ UNCHANGED <<now, rows, applied, last, auxVars>>

\* _ping_bitads line 141: the ranked list goes to campaign_service.set_campaigns
set_campaigns ==
    /\ lastEval.called
    /\ lastEval' = NoEval
    /\ UNCHANGED <<now, last_optimization_time, campaign_performance, ranked, rows, applied, last,
                   auxVars>>

\* time passes between two pings
Tick ==
    /\ ~lastEval.called
    /\ now + TickMinutes <= MaxTime
    /\ now' = now + TickMinutes
    /\ UNCHANGED <<last_optimization_time, campaign_performance, ranked, lastEval,
                   rows, applied, last, auxVars>>

ScorerIdle ==
    /\ now = 0
    /\ last_optimization_time = 0
    /\ campaign_performance = <<>>
    /\ ranked = NoRanking
    /\ lastEval = NoEval

\* no campaign is being scored
NoScoring == [agg |-> <<>>, done |-> FALSE, perf |-> <<>>, score |-> <<>>]

ScoringIdle == scoring = NoScoring

\* the tasks of one sync call, in the order of lines 120-125
Tasks == <<"migrate_old_data", "set_hotkey_and_block", "ping_bitads", "send_load_data",
           "clear_recent_activity">>

TaskNames == {Tasks[i] : i \in DOMAIN Tasks}

\* sync is not running
NoSync ==
    [pc |-> "idle", base |-> "none", outcome |-> [t \in TaskNames |-> "none"],
     raised |-> FALSE]

SyncIdle == sync_run = NoSync

\* no paged query was made
NoQuery ==
    [op |-> "none", page_number |-> 1, page_size |-> 1, total |-> 0,
     request |-> <<>>, data |-> 0, pagination |-> <<>>]

PagingIdle == paging = NoQuery

\* no concurrent calls are running
NoCallers == [proc |-> <<>>, writes |-> <<>>]

CallersIdle == callers = NoCallers

\* nothing was rejected for this id
NoArrival ==
    [phase |-> "none", item |-> <<>>, visit |-> <<>>, validator |-> <<>>, status |-> "",
     record |-> <<>>]

ArrivalIdle == arrival = [i \in Ids |-> NoArrival]

\* no request was served since the last answer was sent
NoRequest ==
    [served |-> FALSE, before |-> {}, campaign |-> <<>>, ipaddr_info |-> <<>>,
     campaign_item |-> "", fault |-> "none", id_ |-> 0, raised |-> FALSE,
     saved |-> FALSE, response |-> <<>>]

TrackingIdle == tracking = [visits |-> {}, req |-> NoRequest]

Init ==
    /\ StoreInit
    /\ ScorerIdle
    /\ ScoringIdle
    /\ SyncIdle
    /\ PagingIdle
    /\ CallersIdle
    /\ ArrivalIdle
    /\ TrackingIdle

NextStore ==
    \/ add_by_visit
    \/ add_by_visits
    \/ add_bitads_data
    \/ add_completed_visits
    \/ add_by_queue_items
    \/ Return

SpecStore == Init /\ [][NextStore]_vars

NextScorer ==
    \/ optimize_campaign_selection
    \/ set_campaigns
    \/ Tick

SpecScorer == Init /\ [][NextScorer]_vars

---------------------------------------------------------------------------
(* The score of one campaign, as a function of its aggregates *)

\* the amounts of a campaign's sales, and how many visits and refunds it has
SaleLists ==
    {<<>>, <<10>>, <<250>>, <<500>>, <<600>>, <<10000>>, <<499, 500>>, <<100, 200, 300>>}
VisitCounts == {0, 1, 20, 40, 100}
RefundCounts == {0, 1, 3}

ScoreInputs ==
    {[sales |-> s, visits |-> v, refunds |-> r] :
        s \in SaleLists, v \in VisitCounts, r \in RefundCounts}

\* lines 256-270 and 273-295 for one campaign
score_campaign ==
    /\ scoring.agg # <<>>
    /\ ~scoring.done
    /\ LET perfs == (1 :> Performance(scoring.agg[1], 0))
       IN scoring' = [agg |-> scoring.agg, done |-> TRUE, perf |-> <<perfs[1]>>,
                      score |-> <<calculate_campaign_score(perfs, 1)>>]
    /\ UNCHANGED <<storeVars, scorerVars, sync_run, paging, callers, arrival, tracking>>

InitScore ==
    /\ StoreInit
    /\ ScorerIdle
    /\ SyncIdle
    /\ PagingIdle
    /\ CallersIdle
    /\ ArrivalIdle
    /\ TrackingIdle
    /\ scoring \in {[NoScoring EXCEPT !.agg = <<a>>] : a \in ScoreInputs}

NextScore == score_campaign

SpecScore == InitScore /\ [][NextScore]_vars

---------------------------------------------------------------------------
(* CoreMiner.sync: one tick of the periodic tasks *)

\* execute_periodically (spec.md 4.5 a, b): a task whose interval has not
\* elapsed is skipped silently; otherwise its body runs
Gate(due, body) == IF due THEN body ELSE "skipped"

\* the try of a task without its except
Guarded_bare(task, fails) == IF fails THEN "escaped" ELSE "ran"

\* the try/except around the body of every task: lines 132-148, 153-158,
\* 162-170, 199-219, 222-227
Guarded(task, fails) == IF fails THEN "caught" ELSE "ran"

\* lines 119-127: the next task runs unless an exception left the last one,
\* which the except of line 126 takes
AfterTask(k, outcome) ==
    IF outcome = "escaped" \/ k = Len(Tasks) THEN "end" ELSE Tasks[k + 1]

\* lines 126-127: except Exception takes what leaves a task, so nothing
\* leaves sync
LeavesSync(outcome) == FALSE

\* what task number k does to the sync call
RunTask(k, result) ==
    /\ sync_run.pc = Tasks[k]
    /\ sync_run' = [sync_run EXCEPT !.pc = AfterTask(k, result),
                                     !.outcome[Tasks[k]] = result,
                                     !.raised = LeavesSync(result)]
    /\ UNCHANGED <<storeVars, scorerVars, scoring, paging, callers, arrival, tracking>>

\* lines 113-118: super().sync() inside its own try
sync ==
    /\ sync_run.pc = "idle"
    /\ \E fails \in BOOLEAN :
        sync_run' = [NoSync EXCEPT !.pc = Tasks[1],
                                   !.base = IF fails THEN "caught" ELSE "ran"]
    /\ UNCHANGED <<storeVars, scorerVars, scoring, paging, callers, arrival, tracking>>

\* line 120 and lines 160-170
migrate_old_data ==
    \E due, fails \in BOOLEAN : RunTask(1, Gate(due, Guarded("migrate_old_data", fails)))

\* line 121 and lines 221-227: not periodic
set_hotkey_and_block ==
    \E fails \in BOOLEAN : RunTask(2, Guarded("set_hotkey_and_block", fails))

\* line 122 and lines 130-149
ping_bitads ==
    \E due, fails \in BOOLEAN : RunTask(3, Gate(due, Guarded("ping_bitads", fails)))

\* line 124 and lines 197-219
send_load_data ==
    \E due, fails \in BOOLEAN : RunTask(4, Gate(due, Guarded("send_load_data", fails)))

\* line 125 and lines 151-158
clear_recent_activity ==
    \E due, fails \in BOOLEAN : RunTask(5, Gate(due, Guarded("clear_recent_activity", fails)))

\* line 128: sync returns; the next tick calls it again
end_sync ==
    /\ sync_run.pc = "end"
    /\ sync_run' = NoSync
    /\ UNCHANGED <<storeVars, scorerVars, scoring, paging, callers, arrival, tracking>>

NextSync ==
    \/ sync
    \/ migrate_old_data
    \/ set_hotkey_and_block
    \/ ping_bitads
    \/ send_load_data
    \/ clear_recent_activity
    \/ end_sync

SpecSync == Init /\ [][NextSync]_vars

---------------------------------------------------------------------------
(* Two callers of add_by_queue_items at once, each with one item for the same
   stored id.  A caller reads the record (line 133), builds its copy (lines
   137-159) and upserts it (lines 160-162); the store serves one read or one
   upsert at a time, in any order of the two callers. *)

Callers == {1, 2}

\* the id both items name
SharedId == 1

\* caller 1 is validator v1, caller 2 is validator v2
CallerValidator(c) == CHOOSE v \in Validators : v.block = c

\* the records id 1 can have when the calls begin: a fresh visit, a bulk
\* import, or a visit an earlier item was applied to
SharedVisit == [id |-> SharedId, campaign_id |-> 1, origin |-> 1, miner_block |-> 1]

InitialRecords ==
    {ToBitAdsData(SharedVisit), ToCompletedData(SharedVisit)} \cup
    {NewData(ToBitAdsData(SharedVisit), CallerValidator(1), i) :
        i \in {i \in OrderQueueSchemas : i.id = SharedId}}

\* a caller that has not read yet
NewCaller(c, item) ==
    [pc |-> "get_data", item |-> item, validator |-> CallerValidator(c),
     existed_data |-> <<>>, new_data |-> <<>>, read_at |-> 0,
     status |-> "", record |-> <<>>]

\* lines 133-159: the lookup and the copy
get_existing ==
    \E c \in DOMAIN callers.proc :
        LET p == callers.proc[c]
            existed == get_data(rows, p.item.id)
        IN /\ p.pc = "get_data"
           /\ callers' =
                [callers EXCEPT !.proc[c] =
                    IF existed = <<>>
                    THEN [p EXCEPT !.pc = "done", !.status = "VISIT_NOT_FOUND"]
                    ELSE [p EXCEPT !.pc = "add_or_update",
                                   !.existed_data = existed,
                                   !.new_data = <<NewData(existed[1], p.validator, p.item)>>,
                                   !.read_at = Len(callers.writes)]]
           /\ UNCHANGED <<storeVars, scorerVars, scoring, sync_run, paging, arrival, tracking>>

\* lines 160-162: the upsert and the outcome
upsert_new_data ==
    \E c \in DOMAIN callers.proc :
        LET p == callers.proc[c]
        IN /\ p.pc = "add_or_update"
           /\ LET u == add_or_update(rows, p.new_data[1])
              IN /\ rows' = u.rows
                 /\ callers' =
                      [callers EXCEPT !.proc[c] = [p EXCEPT !.pc = "done",
                                                            !.status = "PROCESSED",
                                                            !.record = <<u.rec>>],
                                      !.writes = Append(@, c)]
           /\ UNCHANGED <<applied, last, scorerVars, scoring, sync_run, paging, arrival, tracking>>

InitConcurrent ==
    /\ rows \in {{r} : r \in InitialRecords}
    /\ applied = [i \in Ids |-> <<>>]
    /\ last = NoCall
    /\ ScorerIdle
    /\ ScoringIdle
    /\ SyncIdle
    /\ PagingIdle
    /\ ArrivalIdle
    /\ TrackingIdle
    /\ \E i1, i2 \in {i \in OrderQueueSchemas : i.id = SharedId} :
        /\ i1 # i2
        /\ callers = [proc |-> (1 :> NewCaller(1, i1)) @@ (2 :> NewCaller(2, i2)),
                      writes |-> <<>>]

NextConcurrent ==
    \/ get_existing
    \/ upsert_new_data

SpecConcurrent == InitConcurrent /\ [][NextConcurrent]_vars

---------------------------------------------------------------------------
(* Items and visits arriving in any order.  A caller submits one item at a
   time and ingests one visit at a time; arrival remembers, per id, an item
   that was answered VISIT_NOT_FOUND, the visit ingested after it, and what
   the resubmission of that item returned. *)

\* add_by_queue_items (lines 127-166) with one item
submit_item ==
    \E validator \in Validators :
      \E item \in OrderQueueSchemas :
        LET r == RunItems(rows, applied, <<>>, <<>>, validator, <<item>>, <<"ok">>)
            out == r.result[item.id]
            a == arrival[item.id]
        IN /\ rows' = r.rows
           /\ applied' = r.applied
           /\ arrival' =
                [arrival EXCEPT ![item.id] =
                    IF out.status = "VISIT_NOT_FOUND"
                    THEN [NoArrival EXCEPT !.phase = "rejected", !.item = <<item>>]
                    ELSE IF a.phase = "ingested" /\ a.item = <<item>>
                    THEN [a EXCEPT !.phase = "resubmitted", !.validator = <<validator>>,
                                   !.status = out.status, !.record = out.record]
                    ELSE NoArrival]
           /\ UNCHANGED <<last, scorerVars, scoring, sync_run, paging, callers, tracking>>

\* add_by_visit (lines 92-94)
ingest_visit ==
    \E visit \in VisitorSchemas :
        LET u == add_or_update(rows, ToBitAdsData(visit))
        IN /\ rows' = u.rows
           /\ applied' = Unapply(applied, {visit.id})
           /\ arrival' =
                [arrival EXCEPT ![visit.id] =
                    IF @.phase = "rejected"
                    THEN [@ EXCEPT !.phase = "ingested", !.visit = <<visit>>]
                    ELSE NoArrival]
           /\ UNCHANGED <<last, scorerVars, scoring, sync_run, paging, callers, tracking>>

NextArrival ==
    \/ submit_item
    \/ ingest_visit

SpecArrival == Init /\ [][NextArrival]_vars

---------------------------------------------------------------------------
(* BitAdsServiceImpl: the paged range queries *)

PageSizes == {1, 2, 500}
Totals == {0, 1, 1000, 1001}

\* the offset counted from page_number instead of page_number - 1
Offset_from_one(page_number, page_size) == page_number * page_size

\* lines 49, 63, 175
Offset(page_number, page_size) == (page_number - 1) * page_size

\* lines 48, 62, 174
Limit(page_number, page_size) == page_size

\* how many rows the store returns for a range of total rows (spec.md 4.1,
\* range scan)
PageRows(total, limit, offset) ==
    IF total <= offset THEN 0
    ELSE IF total - offset < limit THEN total - offset ELSE limit

\* lines 50-53, 64-67, 176-179: the call to the repository
StoreRequest(page_number, page_size) ==
    [limit |-> Limit(page_number, page_size), offset |-> Offset(page_number, page_size)]

\* lines 70-75
PaginationInfo(total, page_number, page_size) ==
    [total |-> total, page_size |-> page_size, page_number |-> page_number,
     next_page_number |-> page_number + 1]

\* a query that returns the rows alone
ListQuery(op) ==
    /\ paging.op = "none"
    /\ LET req == StoreRequest(paging.page_number, paging.page_size)
       IN paging' = [paging EXCEPT !.op = op, !.request = <<req>>,
                                   !.data = PageRows(paging.total, req.limit, req.offset)]
    /\ UNCHANGED <<storeVars, scorerVars, scoring, sync_run, callers, arrival, tracking>>

\* lines 41-53
get_bitads_data_between == ListQuery("get_bitads_data_between")

\* lines 55-76
get_bitads_data_between_paged ==
    /\ paging.op = "none"
    /\ LET req == StoreRequest(paging.page_number, paging.page_size)
       IN paging' = [paging EXCEPT
                        !.op = "get_bitads_data_between_paged",
                        !.request = <<req>>,
                        !.data = PageRows(paging.total, req.limit, req.offset),
                        !.pagination = <<PaginationInfo(paging.total, paging.page_number,
                                                        paging.page_size)>>]
    /\ UNCHANGED <<storeVars, scorerVars, scoring, sync_run, callers, arrival, tracking>>

\* lines 168-179
get_by_campaign_items == ListQuery("get_by_campaign_items")

InitPaging ==
    /\ StoreInit
    /\ ScorerIdle
    /\ ScoringIdle
    /\ SyncIdle
    /\ CallersIdle
    /\ ArrivalIdle
    /\ TrackingIdle
    /\ paging \in {[NoQuery EXCEPT !.page_number = n, !.page_size = z, !.total = t] :
                        n \in 1..MaxPage, z \in PageSizes, t \in Totals}

NextPaging ==
    \/ get_bitads_data_between
    \/ get_bitads_data_between_paged
    \/ get_by_campaign_items

SpecPaging == InitPaging /\ [][NextPaging]_vars

---------------------------------------------------------------------------
(* Properties of add_by_queue_items, add_by_visits and the store *)

IsQueueCall == last.op = "add_by_queue_items"

\* the items of the last add_by_queue_items call, each with what it found and got
QueueLog == IF IsQueueCall THEN {last.log[i] : i \in DOMAIN last.log} ELSE {}

Outcomes == {"VISIT_NOT_FOUND", "PROCESSED", "ERROR"}

\* the row stored under id in rs
RowOf(rs, id) == CHOOSE r \in rs : r.id = id

\* the fields derived from a queue item
Derived(r) ==
    [sale_amount |-> r.sale_amount, sales |-> r.sales, refund |-> r.refund,
     order_info |-> r.order_info, refund_info |-> r.refund_info,
     sales_status |-> r.sales_status]

\* C1: an item whose id has no record in the store when the item is
\* processed leaves the ids and the rows of the store unchanged, and the
\* outcome it receives from the lookup is VISIT_NOT_FOUND with no record.
C1_UnknownIdNotFound ==
    \A e \in QueueLog :
        e.item.id \notin StoredIds(e.before) =>
            /\ e.after = e.before
            /\ e.status \in Outcomes => (e.status = "VISIT_NOT_FOUND" /\ e.record = <<>>)

\* C1 witness: a batch reached an unknown id while the store held another record
C1_Witness ==
    \E e \in QueueLog :
        /\ e.item.id \notin StoredIds(e.before)
        /\ e.before # {}
        /\ e.status = "VISIT_NOT_FOUND"
        /\ rows = e.before

\* C2: an item applied to a record whose last write was the same item leaves
\* the derived fields (sale_amount, sales, refund, order_info, refund_info,
\* sales_status) as the first application left them.
C2_ReapplyKeepsDerived ==
    \A e \in QueueLog :
        (e.prev_item = <<e.item>> /\ e.existed # <<>>) =>
            /\ e.item.id \in StoredIds(e.after)
            /\ Derived(RowOf(e.after, e.item.id)) = Derived(e.existed[1])

\* C2 witness: the same item was applied again by another validator
C2_Witness ==
    \E e \in QueueLog :
        /\ e.prev_item = <<e.item>>
        /\ e.status = "PROCESSED"
        /\ e.existed # <<>>
        /\ e.existed[1].validator_block # last.validator.block
        /\ e.record[1].validator_block = last.validator.block

\* C3 as stated: a processed item whose refund_info is present leaves the
\* stored record COMPLETED.
C3_RefundInfoCompletes ==
    \A e \in QueueLog :
        (e.status = "PROCESSED" /\ e.item.refund_info # <<>>) =>
            RowOf(e.after, e.item.id).sales_status = "COMPLETED"

\* C3 amended: a processed item whose refund_info holds at least one refund
\* line item leaves the stored record COMPLETED, whatever its status was.
C3_RefundItemsComplete ==
    \A e \in QueueLog :
        (/\ e.status = "PROCESSED"
         /\ e.item.refund_info # <<>>
         /\ e.item.refund_info[1].items # <<>>) =>
            RowOf(e.after, e.item.id).sales_status = "COMPLETED"

\* C3 witness: a record that was NONE became COMPLETED by a refund line item
C3_Witness ==
    \E e \in QueueLog :
        /\ e.status = "PROCESSED"
        /\ e.item.refund_info # <<>>
        /\ e.item.refund_info[1].items # <<>>
        /\ e.existed[1].sales_status = "NONE"
        /\ RowOf(e.after, e.item.id).sales_status = "COMPLETED"

\* C4: after a processed item the stored record has sale_amount = order total
\* minus refund total (0 without refund_info), sales = number of order lines
\* and refund = number of refund lines (0 without refund_info); a negative
\* difference is stored as it is.
C4_NetAmountAndCounts ==
    \A e \in QueueLog :
        e.status = "PROCESSED" =>
            LET r == RowOf(e.after, e.item.id)
                refund_total == IF e.item.refund_info = <<>> THEN 0
                                ELSE e.item.refund_info[1].totalAmount
                refund_lines == IF e.item.refund_info = <<>> THEN 0
                                ELSE Len(e.item.refund_info[1].items)
            IN /\ r.sale_amount = e.item.order_info.totalAmount - refund_total
               /\ r.sales = Len(e.item.order_info.items)
               /\ r.refund = refund_lines
               /\ e.record = <<r>>

\* C4 witness: a refund larger than the sale, over a record that held other amounts
C4_Witness ==
    \E e \in QueueLog :
        /\ e.status = "PROCESSED"
        /\ RowOf(e.after, e.item.id).sale_amount < 0
        /\ e.existed[1].sale_amount > 0

\* C5: add_by_visits writes a row exactly for the visits whose id was not
\* stored when the call began, and leaves every row that was stored as it was.
C5_BulkVisitsOnlyNewIds ==
    last.op = "add_by_visits" =>
        LET visit_ids == {last.visits[i].id : i \in DOMAIN last.visits}
        IN /\ StoredIds(rows) = StoredIds(last.before) \cup visit_ids
           /\ \A r \in last.before : r \in rows
           /\ \A r \in rows \ last.before :
                /\ r.id \notin StoredIds(last.before)
                /\ \E i \in DOMAIN last.visits : r = ToBitAdsData(last.visits[i])

\* C5 witness: one visit of the set was stored already, with sale data, and one was new
C5_Witness ==
    /\ last.op = "add_by_visits"
    /\ \E i, j \in DOMAIN last.visits :
        /\ last.visits[i].id \in StoredIds(last.before)
        /\ RowOf(last.before, last.visits[i].id).order_info # <<>>
        /\ last.visits[j].id \notin StoredIds(last.before)
        /\ last.visits[j].id \in StoredIds(rows)

C7_UpsertFailureIsolated ==
    IsQueueCall =>
        \A i \in DOMAIN last.log :
            (last.log[i].fault = "write" /\ last.log[i].existed # <<>>) =>
                /\ last.log[i].status = "ERROR"
                /\ last.log[i].record = <<>>
                /\ last.log[i].after = last.log[i].before
                /\ \A j \in (i + 1)..Len(last.items) :
                     (\A k \in (i + 1)..j : last.faults[k] # "read") =>
                        /\ j \in DOMAIN last.log
                        /\ last.log[j].item = last.items[j]
                        /\ last.log[j].status \in Outcomes

\* C7 witness: the first upsert failed and the next item was processed and returned
C7_Witness ==
    /\ IsQueueCall
    /\ ~last.raised
    /\ Len(last.log) = 2
    /\ last.log[1].fault = "write"
    /\ last.log[1].status = "ERROR"
    /\ last.log[2].status = "PROCESSED"
    /\ last.result[last.log[2].item.id].status = "PROCESSED"

\* C8 as stated: a lookup that raises is caught for its item: the item gets
\* ERROR, the call returns its map and the rest of the batch is processed.
C8_ReadFailureCaught ==
    IsQueueCall =>
        \A i \in DOMAIN last.log :
            last.log[i].fault = "read" =>
                /\ last.log[i].status = "ERROR"
                /\ ~last.raised
                /\ Len(last.log) = Len(last.items)

\* C9: the map a call returns has the ids of the items as its keys; every
\* value has a status among VISIT_NOT_FOUND, PROCESSED, ERROR; it has a record
\* exactly when PROCESSED, the row stored for the id by that item's upsert.
C9_ResultMap ==
    (IsQueueCall /\ ~last.raised) =>
        /\ DOMAIN last.result = {last.items[i].id : i \in DOMAIN last.items}
        /\ \A k \in DOMAIN last.result :
            LET v == last.result[k]
                j == CHOOSE j \in DOMAIN last.log :
                        /\ last.log[j].item.id = k
                        /\ \A m \in DOMAIN last.log : last.log[m].item.id = k => m <= j
            IN /\ v.status \in Outcomes
               /\ v.record # <<>> <=> v.status = "PROCESSED"
               /\ v.status = last.log[j].status
               /\ v.status = "PROCESSED" => v.record = <<RowOf(last.log[j].after, k)>>

\* C9 witness: a returned map with a PROCESSED and a VISIT_NOT_FOUND entry
C9_Witness ==
    /\ IsQueueCall
    /\ ~last.raised
    /\ \E k1, k2 \in DOMAIN last.result :
        /\ last.result[k1].status = "PROCESSED"
        /\ last.result[k1].record[1].order_info # <<>>
        /\ last.result[k2].status = "VISIT_NOT_FOUND"

\* C19: a processed item leaves id, campaign_id (campaign and campaign
\* item), origin (ip, user agent, referer, device, country, country code) and
\* miner_block (miner hotkey and block) of the stored record as they were,
\* sets validator_block and validator_hotkey to the arguments of the call,
\* and touches no other row.
C19_OriginKept ==
    \A e \in QueueLog :
        e.status = "PROCESSED" =>
            LET old == e.existed[1]
                new == RowOf(e.after, e.item.id)
            IN /\ new.id = old.id
               /\ new.campaign_id = old.campaign_id
               /\ new.origin = old.origin
               /\ new.miner_block = old.miner_block
               /\ new.validator_block = last.validator.block
               /\ new.validator_hotkey = last.validator.hotkey
               /\ e.after \ {new} = e.before \ {old}

\* C19 witness: validator v2 processed an item on a record of campaign 2 that
\* validator v1 had written, next to another record
C19_Witness ==
    \E e \in QueueLog :
        /\ e.status = "PROCESSED"
        /\ e.existed[1].campaign_id = 2
        /\ e.existed[1].origin = 2
        /\ e.existed[1].miner_block = 1
        /\ e.existed[1].validator_hotkey = "v1"
        /\ last.validator.hotkey = "v2"
        /\ RowOf(e.after, e.item.id).validator_hotkey = "v2"
        /\ RowOf(e.after, e.item.id).order_info # e.existed[1].order_info
        /\ Cardinality(e.after) = 2

\* the record of an id whose visit was ingested into an empty store before
\* the item was reconciled, once
InOrderRecord(visit, validator, item) ==
    LET ingested == add_or_update({}, ToBitAdsData(visit)).rows
        r == RunItems(ingested, [i \in Ids |-> <<>>], <<>>, <<>>, validator, <<item>>, <<"ok">>)
    IN RowOf(r.rows, item.id)

\* C20: an item answered VISIT_NOT_FOUND leaves no record for its id; once
\* the visit is ingested the record is the visit's, without sale data, until
\* the caller resubmits; the resubmitted item is PROCESSED, and the record
\* returned and stored is the one of the in-order arrival.
C20_OutOfOrderConverges ==
    \A k \in Ids :
        LET a == arrival[k]
        IN /\ a.phase = "rejected" => k \notin StoredIds(rows)
           /\ a.phase = "ingested" =>
                /\ k \in StoredIds(rows)
                /\ RowOf(rows, k) = ToBitAdsData(a.visit[1])
                /\ RowOf(rows, k).order_info = <<>>
                /\ RowOf(rows, k).sale_amount = 0
           /\ a.phase = "resubmitted" =>
                /\ a.status = "PROCESSED"
                /\ a.record = <<InOrderRecord(a.visit[1], a.validator[1], a.item[1])>>
                /\ RowOf(rows, k) = InOrderRecord(a.visit[1], a.validator[1], a.item[1])

\* C20 witness: an item with a refund was rejected, its visit came, the item
\* was resubmitted and processed, while the store held another record
C20_Witness ==
    \E k \in Ids :
        /\ arrival[k].phase = "resubmitted"
        /\ arrival[k].status = "PROCESSED"
        /\ arrival[k].item[1].refund_info # <<>>
        /\ RowOf(rows, k).order_info = <<arrival[k].item[1].order_info>>
        /\ RowOf(rows, k).sales_status = "COMPLETED"
        /\ Cardinality(rows) = 2

\* C17 as stated: a record that is COMPLETED is COMPLETED after every call
\* of the service, queue items and re-ingested visits included.
C17_StatusMonotone ==
    [][\A r \in rows :
          r.sales_status = "COMPLETED" =>
              \A r2 \in rows' : r2.id = r.id => r2.sales_status = "COMPLETED"]_vars

---------------------------------------------------------------------------
(* Properties of the campaign scorer *)

\* C10 as stated: a call inside the refresh interval returns the list the
\* previous recomputation returned.
C10_IdleReturnsPreviousRanking ==
    (/\ lastEval.called
     /\ lastEval.within
     /\ ~lastEval.raised
     /\ lastEval.previous.has) =>
        lastEval.ret = lastEval.previous.list

\* C11: a call made while now - last_optimization_time < optimization_interval
\* issues no aggregate query and leaves last_optimization_time and
\* campaign_performance as they were; a call made when the interval has
\* elapsed sets last_optimization_time to now and queries the aggregates of
\* the active campaigns in order, all of them unless a query raises.
C11_GateFrame ==
    (lastEval.called /\ ~lastEval.source_failed) =>
        IF now - lastEval.time_before < optimization_interval
        THEN /\ lastEval.queried = <<>>
             /\ last_optimization_time = lastEval.time_before
             /\ campaign_performance = lastEval.perfs_before
        ELSE /\ last_optimization_time = now
             /\ ~lastEval.raised => lastEval.queried = lastEval.active
             /\ \A i \in DOMAIN lastEval.queried : lastEval.queried[i] = lastEval.active[i]

\* C11 witness: an idle call after a recomputation that queried two campaigns
C11_Witness ==
    /\ lastEval.called
    /\ ~lastEval.source_failed
    /\ now - lastEval.time_before < optimization_interval
    /\ lastEval.active # <<>>
    /\ lastEval.previous.has
    /\ Len(lastEval.previous.list) = NumCampaigns
    /\ DOMAIN campaign_performance = CampaignIds
    /\ last_optimization_time > 0

\* the score of campaign c from the aggregates the last call was given
FreshScore(c) == ScoreOf[Metrics(PerformanceOf[lastEval.aggs[c]])]

\* where campaign c stands in the active list of the last call
ActivePos(c) == CHOOSE i \in DOMAIN lastEval.active : lastEval.active[i] = c

\* C13: the list a recomputing call returns holds the active campaigns
\* ordered by score descending, and campaigns of equal score stand in the
\* order they have in the active list.
C13_SortedStable ==
    (lastEval.called /\ lastEval.recomputed) =>
        LET ret == lastEval.ret
        IN /\ Len(ret) = Len(lastEval.active)
           /\ {ret[i] : i \in DOMAIN ret} = {lastEval.active[i] : i \in DOMAIN lastEval.active}
           /\ \A i, j \in DOMAIN ret :
                i < j =>
                    /\ FLe(FreshScore(ret[j]), FreshScore(ret[i]))
                    /\ FEq(FreshScore(ret[i]), FreshScore(ret[j])) =>
                            ActivePos(ret[i]) < ActivePos(ret[j])

\* C13 witness: two campaigns of equal positive score came back in input
\* order, campaign 2 first
C13_Witness ==
    /\ lastEval.called
    /\ lastEval.recomputed
    /\ lastEval.active = <<2, 1>>
    /\ lastEval.ret = <<2, 1>>
    /\ FEq(FreshScore(1), FreshScore(2))
    /\ FLt(FZero, FreshScore(1))

\* C14 as stated: after a recomputing call the keys of campaign_performance
\* are exactly the ids of the campaigns active in that call.
C14_PerformanceReplaced ==
    (lastEval.called /\ lastEval.recomputed) =>
        DOMAIN campaign_performance = {lastEval.active[i] : i \in DOMAIN lastEval.active}

---------------------------------------------------------------------------
(* Properties of concurrent add_by_queue_items calls *)

\* the caller whose upsert was the last so far
LastWriter == callers.writes[Len(callers.writes)]

\* the sale-derived fields of record r are those of item, written by validator
FromItem(r, item, validator) ==
    /\ r.order_info = <<item.order_info>>
    /\ r.refund_info = item.refund_info
    /\ r.sale_date = item.order_info.sale_date
    /\ r.sales = Len(item.order_info.items)
    /\ r.refund = (IF item.refund_info = <<>> THEN 0 ELSE Len(item.refund_info[1].items))
    /\ r.sale_amount = item.order_info.totalAmount -
                        (IF item.refund_info = <<>> THEN 0 ELSE item.refund_info[1].totalAmount)
    /\ r.validator_block = validator.block
    /\ r.validator_hotkey = validator.hotkey

\* C18: once a caller has upserted, the sale-derived fields of the record
\* are all those of the item whose upsert was the last, with that caller's
\* validator; every caller that is done got PROCESSED, and the id keeps one row.
C18_LastWriterWins ==
    /\ callers.writes # <<>> =>
        /\ Cardinality(rows) = 1
        /\ FromItem(RowOf(rows, SharedId), callers.proc[LastWriter].item,
                    callers.proc[LastWriter].validator)
    /\ \A c \in DOMAIN callers.proc :
        callers.proc[c].pc = "done" => callers.proc[c].status = "PROCESSED"

\* C18 witness: both callers read the record before either wrote, both
\* wrote, one item with a refund and one without, and the record is the
\* second writer's
C18_Witness ==
    /\ Len(callers.writes) = 2
    /\ \A c \in DOMAIN callers.proc : callers.proc[c].read_at = 0
    /\ callers.proc[1].item.refund_info # <<>>
    /\ callers.proc[2].item.refund_info = <<>>
    /\ callers.writes = <<1, 2>>
    /\ RowOf(rows, SharedId).refund_info = <<>>
    /\ RowOf(rows, SharedId).validator_hotkey = "v2"

---------------------------------------------------------------------------
(* Properties of sync *)

\* the tasks that stand after task t in the tick
LaterTasks(t) ==
    {Tasks[j] : j \in {j \in DOMAIN Tasks : \E i \in DOMAIN Tasks : Tasks[i] = t /\ i < j}}

\* C15: when sync reaches its end, every task of the tick was called,
\* whichever of the earlier tasks (or super().sync()) raised; no exception
\* left a task, and none left sync.
C15_TaskFailureIsolated ==
    sync_run.pc = "end" =>
        /\ \A t \in TaskNames :
            /\ sync_run.outcome[t] \in {"skipped", "ran", "caught"}
            /\ sync_run.outcome[t] = "caught" =>
                    \A u \in LaterTasks(t) : sync_run.outcome[u] # "none"
        /\ ~sync_run.raised

\* C15 witness: super().sync(), the migration and the ping raised, and the
\* load report and the cleanup ran after them
C15_Witness ==
    /\ sync_run.pc = "end"
    /\ sync_run.base = "caught"
    /\ sync_run.outcome["migrate_old_data"] = "caught"
    /\ sync_run.outcome["ping_bitads"] = "caught"
    /\ sync_run.outcome["send_load_data"] = "ran"
    /\ sync_run.outcome["clear_recent_activity"] = "ran"

---------------------------------------------------------------------------
(* Properties of the paged queries *)

\* C16: each of the three range queries asks the store for offset =
\* (page_number - 1) * page_size and limit = page_size, and the paged one
\* returns the total of the store, page_size and page_number as given and
\* next_page_number = page_number + 1, whatever the total and however many
\* rows came back.
C16_PageRequest ==
    paging.op # "none" =>
        /\ paging.request[1].offset = (paging.page_number - 1) * paging.page_size
        /\ paging.request[1].limit = paging.page_size
        /\ paging.op = "get_bitads_data_between_paged" =>
            /\ paging.pagination[1].page_size = paging.page_size
            /\ paging.pagination[1].page_number = paging.page_number
            /\ paging.pagination[1].next_page_number = paging.page_number + 1
            /\ paging.pagination[1].total = paging.total

\* C16 witness: page 3 of size 500 asked for offset 1000, came back empty and
\* still names page 4 as the next
C16_Witness ==
    /\ paging.op = "get_bitads_data_between_paged"
    /\ paging.page_number = 3
    /\ paging.page_size = 500
    /\ paging.request[1] = [limit |-> 500, offset |-> 1000]
    /\ paging.data = 0
    /\ paging.pagination[1].next_page_number = 4

\* the float next above x > 0
NextUp(x) == Round(x.neg, NAdd(x.m, <<1>>), x.e, FALSE)

\* avg_sale >= 500, conversion_rate >= 0.05 and refund_rate = 0
BothClamped(perf) ==
    /\ FLe(FromInt(500), perf.avg_sale)
    /\ FLe(Frac(5, 100), perf.conversion_rate)
    /\ perf.refund_rate = FZero

\* C12 as stated: every score lies in [0, 0.95], a campaign with avg_sale >=
\* 500, conversion_rate >= 0.05 and refund_rate = 0 scores exactly 0.95, and a
\* campaign with no visits and no sales scores 0.
C12_ScoreWithinNinetyFive ==
    scoring.done =>
        LET perf == scoring.perf[1]
            score == scoring.score[1]
        IN /\ FLe(FZero, score)
           /\ FLe(score, Frac(95, 100))
           /\ BothClamped(perf) => FEq(score, Frac(95, 100))
           /\ (perf.total_visits = 0 /\ perf.total_sales = 0) => score = FZero

\* C12 amended: every score lies between 0 and the float next above 0.95
\* (0.9500000000000001, which is what 0.90 + 0.05 rounds to); a campaign with
\* avg_sale >= 500, conversion_rate >= 0.05 and refund_rate = 0 scores that
\* float; a campaign with no visits and no sales has rates 0 and scores 0.
C12_ScoreWithinRounding ==
    scoring.done =>
        LET perf == scoring.perf[1]
            score == scoring.score[1]
        IN /\ FLe(FZero, score)
           /\ FLe(score, NextUp(Frac(95, 100)))
           /\ BothClamped(perf) => score = NextUp(Frac(95, 100))
           /\ (perf.total_visits = 0 /\ perf.total_sales = 0) =>
                /\ perf.conversion_rate = FZero
                /\ perf.refund_rate = FZero
                /\ perf.avg_sale = FZero
                /\ score = FZero

\* C12 witness: a campaign with both ratios clamped was scored
C12_Witness ==
    /\ scoring.done
    /\ BothClamped(scoring.perf[1])
    /\ FLt(FromInt(500), scoring.perf[1].avg_sale)
    /\ scoring.score[1] = NextUp(Frac(95, 100))

---------------------------------------------------------------------------
(* Further properties of add_by_queue_items *)

\* C21: a processed item with at least one refund line item leaves the
\* record COMPLETED; a processed item without refund_info, or with a
\* refund_info whose items list is empty, leaves sales_status as the record
\* read had it; in both cases the refund total of a present refund_info is
\* subtracted from the order total.
C21_StatusOnlyByRefundLines ==
    \A e \in QueueLog :
        e.status = "PROCESSED" =>
            LET r == RowOf(e.after, e.item.id)
                has_lines == e.item.refund_info # <<>> /\ e.item.refund_info[1].items # <<>>
            IN /\ has_lines => r.sales_status = "COMPLETED"
               /\ ~has_lines => r.sales_status = e.existed[1].sales_status
               /\ e.item.refund_info # <<>> =>
                    r.sale_amount = e.item.order_info.totalAmount
                                        - e.item.refund_info[1].totalAmount
               /\ e.record = <<r>>

\* C21 witness: a refund_info with a total and no line was applied to a
\* COMPLETED record, and a sale-only item to a NONE record
C21_Witness ==
    \E e1, e2 \in QueueLog :
        /\ e1.status = "PROCESSED"
        /\ e1.item.refund_info # <<>>
        /\ e1.item.refund_info[1].items = <<>>
        /\ e1.item.refund_info[1].totalAmount > 0
        /\ e1.existed[1].sales_status = "COMPLETED"
        /\ RowOf(e1.after, e1.item.id).sales_status = "COMPLETED"
        /\ e2.status = "PROCESSED"
        /\ e2.item.refund_info = <<>>
        /\ e2.existed[1].sales_status = "NONE"
        /\ RowOf(e2.after, e2.item.id).sales_status = "NONE"

\* the positions of the last call's batch that hold an item of id k
PositionsOf(k) == {i \in DOMAIN last.items : last.items[i].id = k}

\* the last of a non-empty set of positions
LastOf(P) == CHOOSE i \in P : \A j \in P : j <= i

\* C22: in a call without store fault whose batch holds several items of one
\* id, each such item finds the record the previous one wrote; after the call
\* the stored order_info, refund_info, sales, refund and sale_amount are those
\* of the last such item, the result map holds for the id the outcome and the
\* record of the last such item, and the record is COMPLETED if any of them
\* carried refund line items.
C22_SameIdInListOrder ==
    (IsQueueCall /\ \A i \in DOMAIN last.faults : last.faults[i] = "ok") =>
        \A k \in Ids :
            LET P == PositionsOf(k)
            IN Cardinality(P) > 1 =>
                LET n == LastOf(P)
                    item == last.items[n]
                IN /\ DOMAIN last.result = {last.items[i].id : i \in DOMAIN last.items}
                   /\ last.result[k] = [status |-> last.log[n].status,
                                        record |-> last.log[n].record]
                   /\ k \in StoredIds(last.before) =>
                        LET r == RowOf(rows, k)
                        IN /\ \A i \in P : last.log[i].status = "PROCESSED"
                           /\ \A i, j \in P :
                                (i < j /\ \A m \in P : ~(i < m /\ m < j)) =>
                                    last.log[j].existed = last.log[i].record
                           /\ r.order_info = <<item.order_info>>
                           /\ r.refund_info = item.refund_info
                           /\ r.sales = Sales(item)
                           /\ r.refund = Refund(item)
                           /\ r.sale_amount = SaleAmount(item)
                           /\ last.result[k].record = <<r>>
                           /\ (\E i \in P : Refund(last.items[i]) > 0) =>
                                r.sales_status = "COMPLETED"
                   /\ k \notin StoredIds(last.before) =>
                        /\ k \notin StoredIds(rows)
                        /\ last.result[k].status = "VISIT_NOT_FOUND"

\* C22 witness: a batch applied a refund with a line and then a different
\* sale-only item to one NONE record
C22_Witness ==
    /\ IsQueueCall
    /\ Len(last.items) = 2
    /\ last.items[1].id = last.items[2].id
    /\ last.faults = <<"ok", "ok">>
    /\ Refund(last.items[1]) > 0
    /\ last.items[2].refund_info = <<>>
    /\ last.items[2].order_info # last.items[1].order_info
    /\ last.log[1].existed # <<>>
    /\ last.log[1].existed[1].sales_status = "NONE"
    /\ RowOf(rows, last.items[1].id).sales_status = "COMPLETED"
    /\ RowOf(rows, last.items[1].id).order_info = <<last.items[2].order_info>>

---------------------------------------------------------------------------
(* Further properties of concurrent add_by_queue_items calls *)

\* C23 as stated: once a caller's item with refund line items has been
\* PROCESSED, the record is COMPLETED in every later state, whatever the
\* other caller read and whenever it upserts.
C23_CompletedSurvivesRace ==
    \A c \in DOMAIN callers.proc :
        (callers.proc[c].status = "PROCESSED" /\ Refund(callers.proc[c].item) > 0) =>
            RowOf(rows, SharedId).sales_status = "COMPLETED"

---------------------------------------------------------------------------
(* Further properties of _optimize_campaign_selection *)

\* the elements of a list
Elems(s) == {s[i] : i \in DOMAIN s}

\* C24 as stated: every call that was given the active campaigns returns a
\* list holding exactly those campaigns, each once, also when the aggregate
\* queries of a campaign raise; it is the list _ping_bitads hands to
\* set_campaigns.
C24_ReturnsAllActive ==
    (lastEval.called /\ ~lastEval.source_failed) =>
        /\ Len(lastEval.ret) = Len(lastEval.active)
        /\ Elems(lastEval.ret) = Elems(lastEval.active)

\* C25 as stated: last_optimization_time changes only in a call that
\* completes the recomputation and returns the ranked list; a call whose
\* aggregate queries raise leaves last_optimization_time and
\* campaign_performance as they were.
C25_TimeAdvancesOnCompletion ==
    lastEval.called =>
        /\ last_optimization_time # lastEval.time_before => lastEval.recomputed
        /\ lastEval.raised =>
            /\ last_optimization_time = lastEval.time_before
            /\ campaign_performance = lastEval.perfs_before

---------------------------------------------------------------------------
(* The tracking endpoint of the miner proxy: GET /{campaign_id}/{campaign_item}
   (src/proxies/miner.py).  campaign_service, geoip_service and miner_service
   are collaborators of the handler: what they return, and which of them
   raises, are inputs of a request.  miner_service.add_visit is the visit
   ingestion of spec.md section 2: it stores the visit it is given. *)

\* the uuids a request can draw
MaxVisits == 2
VisitIds == 1..MaxVisits

\* const.TEST_REDIRECT
TEST_REDIRECT == "test"

CampaignItems == {TEST_REDIRECT, "item"}

\* countries_approved_for_product_sales: a JSON list of country codes, or a
\* text json.loads rejects
ApprovedLists == {[valid |-> TRUE, codes |-> {"US"}], [valid |-> FALSE, codes |-> {}]}

\* what get_campaign_by_id returns: None (<<>>) or a campaign
Campaigns ==
    {<<>>} \cup
    {<<[status |-> s, countries_approved_for_product_sales |-> a, type |-> t]>> :
        s \in {"ACTIVATED", "DEACTIVATED"}, a \in ApprovedLists, t \in {"CPA", "CPS"}}

\* what get_ip_info returns: None (<<>>) or the country of the address
IpInfos == {<<>>, <<[country_code |-> "US"]>>, <<[country_code |-> "RU"]>>}

\* the call that raises in a request, if the request reaches it
\* (get_hotkey_and_block stands for any raise of lines 175-192)
TrackingFaults ==
    {"none", "get_campaign_by_id", "get_ip_info", "get_hotkey_and_block", "add_visit"}

\* a campaign that is found is served whatever its status
CampaignServed_found(campaign) == campaign # <<>>

\* line 159, negated: the campaign exists and is ACTIVATED
CampaignServed(campaign) == campaign # <<>> /\ campaign[1].status = "ACTIVATED"

\* lines 168-170: the lookup named a country that is not in the approved list
CountryDenied(ipaddr_info, campaign) ==
    /\ ipaddr_info # <<>>
    /\ ipaddr_info[1].country_code \notin campaign[1].countries_approved_for_product_sales.codes

\* lines 179-192: the VisitorSchema of the request
Visitor(id_, campaign_item, ipaddr_info) ==
    [id |-> id_, campaign_item |-> campaign_item, at |-> FALSE,
     country_code |-> IF ipaddr_info # <<>> THEN <<ipaddr_info[1].country_code>> ELSE <<>>]

\* miner_service.add_visit
add_visit(visits, visitor) == visits \cup {visitor}

\* RedirectResponse to a static page
Page(visits, p) ==
    [visits |-> visits, raised |-> FALSE, saved |-> FALSE,
     response |-> <<[to |-> p, id |-> 0]>>]

\* lines 207-209: the except clause
Page500(visits) ==
    [visits |-> visits, raised |-> TRUE, saved |-> FALSE,
     response |-> <<[to |-> "/statics/500.html", id |-> 0]>>]

\* lines 200-206: the redirect to the product or to the campaign page
Target(campaign, id_) ==
    [to |-> IF campaign[1].type = "CPA" THEN "product_link" ELSE "v.bitads.ai", id |-> id_]

\* lines 157-209: the handler
Handle(visits, campaign, ipaddr_info, campaign_item, fault, id_) ==
    IF fault = "get_campaign_by_id" THEN Page500(visits)
    ELSE IF ~CampaignServed(campaign) THEN Page(visits, "/statics/404.html")
    ELSE IF fault = "get_ip_info" THEN Page500(visits)
    ELSE IF ipaddr_info # <<>> /\ ~campaign[1].countries_approved_for_product_sales.valid
    THEN \* json.loads raises; it is not called when the lookup returned None
         Page500(visits)
    ELSE IF CountryDenied(ipaddr_info, campaign) THEN Page(visits, "/statics/403.html")
    ELSE IF fault = "get_hotkey_and_block" THEN Page500(visits)
    ELSE IF TEST_REDIRECT # campaign_item
    THEN IF fault = "add_visit" THEN Page500(visits)
         ELSE [visits |-> add_visit(visits, Visitor(id_, campaign_item, ipaddr_info)),
               raised |-> FALSE, saved |-> TRUE, response |-> <<Target(campaign, id_)>>]
    ELSE [visits |-> visits, raised |-> FALSE, saved |-> FALSE,
          response |-> <<Target(campaign, id_)>>]

\* one request; uuid4 gives an id no stored visit has
fetch_request_data_and_redirect ==
    /\ ~tracking.req.served
    /\ \E campaign \in Campaigns :
        \E ipaddr_info \in IpInfos :
          \E campaign_item \in CampaignItems :
            \E fault \in TrackingFaults :
              \E id_ \in VisitIds \ {v.id : v \in tracking.visits} :
                \E h \in {Handle(tracking.visits, campaign, ipaddr_info, campaign_item,
                                 fault, id_)} :
                    tracking' =
                        [visits |-> h.visits,
                         req |-> [served |-> TRUE, before |-> tracking.visits,
                                  campaign |-> campaign, ipaddr_info |-> ipaddr_info,
                                  campaign_item |-> campaign_item, fault |-> fault,
                                  id_ |-> id_, raised |-> h.raised, saved |-> h.saved,
                                  response |-> h.response]]
    /\ UNCHANGED <<storeVars, scorerVars, scoring, sync_run, paging, callers, arrival>>

\* the response leaves; the endpoint serves the next request
send_response ==
    /\ tracking.req.served
    /\ tracking' = [tracking EXCEPT !.req = NoRequest]
    /\ UNCHANGED <<storeVars, scorerVars, scoring, sync_run, paging, callers, arrival>>

NextTracking ==
    \/ fetch_request_data_and_redirect
    \/ send_response

SpecTracking == Init /\ [][NextTracking]_vars

---------------------------------------------------------------------------
(* Properties of the tracking endpoint *)

\* the last request met the three conditions of a visit that is kept
ReqEligible ==
    LET q == tracking.req
    IN /\ q.campaign # <<>>
       /\ q.campaign[1].status = "ACTIVATED"
       /\ ~(/\ q.ipaddr_info # <<>>
            /\ q.ipaddr_info[1].country_code \notin
                    q.campaign[1].countries_approved_for_product_sales.codes)
       /\ q.campaign_item # TEST_REDIRECT

\* the last request stored at most one visit, under the id it drew, and
\* touched no visit that was stored
ReqStoresAtMostOne ==
    LET q == tracking.req
    IN /\ q.before \subseteq tracking.visits
       /\ \A v \in tracking.visits \ q.before :
            /\ v.id = q.id_
            /\ v.id \notin {w.id : w \in q.before}
       /\ Cardinality(tracking.visits \ q.before) <= 1
       /\ q.saved <=> tracking.visits # q.before

ErrorPages == {"/statics/404.html", "/statics/403.html", "/statics/500.html"}

=======================================================================
